---- MODULE Spec2Model ----
(***************************************************************************)
(* Gsheety: a client of the Google Sheets visualization-query and export   *)
(* endpoints.  The model follows the current build of the class (the one   *)
(* with clearNull and generateTableFromOutput): parseURL, fetchJSON, get   *)
(* and getExportedData, each call being a small state machine that is      *)
(* suspended while the request and the body are awaited.                   *)
(*                                                                         *)
(* Strings the code inspects character by character (the share URL) are    *)
(* sequences of one-character strings.  JavaScript scalars are tagged      *)
(* strings: "undefined", "null", "num:0", "str:Adam", "bool:true", ...     *)
(***************************************************************************)
EXTENDS Integers, Sequences, FiniteSets, TLC

VARIABLES pc, op, url, options, type, requests, response, body, result, reapplied, gen

vars == <<pc, op, url, options, type, requests, response, body, result, reapplied, gen>>

----------------------------------------------------------------------------
(* Bounds of the model.                                                    *)

MaxUrlLen == 5
MaxPayload == 5
MaxBodyLen == 4

----------------------------------------------------------------------------
(* JavaScript values.                                                      *)

Undefined == "undefined"
Null == "null"

\* ToBoolean of a scalar: the falsy scalars of the model's value domain.
Falsy(v) == v \in {Undefined, Null, "num:0", "str:", "bool:false"}

Truthy(v) == ~Falsy(v)

SeqsUpTo(S, n) == UNION {[1..k -> S] : k \in 0..n}

----------------------------------------------------------------------------
(* parseURL: url.match(/\/d\/([^/]+)/), leftmost match, greedy group.      *)

InvalidURL == "Invalid Google Sheets URL"

CanonicalPrefix ==
  <<"h","t","t","p","s",":","/","/","d","o","c","s",".","g","o","o","g","l","e",
    ".","c","o","m","/","s","p","r","e","a","d","s","h","e","e","t","s","/","d","/">>

\* The positions at which the regular expression matches: "/d/" followed by
\* at least one character that is not "/".
\* The pattern with the closing "/" made mandatory: /\/d\/([^/]+)\//.
MatchStartsClosed(s) ==
  {i \in 1..(Len(s) - 4) :
      /\ s[i] = "/" /\ s[i + 1] = "d" /\ s[i + 2] = "/"
      /\ s[i + 3] # "/"
      /\ \E j \in (i + 4)..Len(s) : s[j] = "/"}

MatchStarts(s) ==
  {i \in 1..(Len(s) - 3) :
      /\ s[i] = "/" /\ s[i + 1] = "d" /\ s[i + 2] = "/"
      /\ s[i + 3] # "/"}

Matches(s) == MatchStarts(s) # {}

FirstMatch(s) == CHOOSE i \in MatchStarts(s) : \A j \in MatchStarts(s) : i <= j

\* The group written (.+): it runs to the end of the string.
GroupEndOfString(s, k) == Len(s)

\* The end of the greedy group [^/]+ that starts at position k.
GroupEnd(s, k) ==
  CHOOSE j \in k..Len(s) :
      /\ \A m \in k..j : s[m] # "/"
      /\ (j = Len(s) \/ s[j + 1] = "/")

\* match[1]
MatchGroup(s) ==
  LET k == FirstMatch(s) + 3 IN SubSeq(s, k, GroupEnd(s, k))

Return(v) == [kind |-> "return", error |-> "", value |-> v]

Throw(e) == [kind |-> "throw", error |-> e, value |-> Undefined]

Pending == [kind |-> "none", error |-> "", value |-> Undefined]

parseURL(s) ==
  IF ~Matches(s) THEN Throw(InvalidURL)
  ELSE Return(CanonicalPrefix \o MatchGroup(s))

----------------------------------------------------------------------------
(* The options argument of get and fetchJSON.  t is the kind of JavaScript *)
(* value passed; the four fields are the properties the code reads, and    *)
(* are Undefined on anything that is not a plain object.                   *)

InvalidOptions == "Options parameter must be an object"
DestructureError == "TypeError: Cannot destructure property 'sheet' of 'options'"

OptionsValue(t, sheet, query, raw, clearNull) ==
  [t |-> t, sheet |-> sheet, query |-> query, raw |-> raw, clearNull |-> clearNull]

NonObject(t) == OptionsValue(t, Undefined, Undefined, Undefined, Undefined)

EmptyObject == NonObject("object")

\* typeof options
Typeof(o) == IF o.t \in {"object", "array", "null"} THEN "object" ELSE o.t

\* The default of a parameter or of a destructured property applies to
\* undefined only.
OrDefault(v, d) == IF v = Undefined THEN d ELSE v

----------------------------------------------------------------------------
(* The payload of the visualization endpoint.  The body text is a sequence *)
(* of tokens: "{" and "}" are the braces of the outermost JSON object, "g" *)
(* is envelope text (google.visualization.Query.setResponse( ... );), and  *)
(* the other tokens are whole members of that object: "t" is               *)
(* "table":{cols, rows}, "n" is "table":null, "s" is any other member.     *)
(* body.table is the table that the member "t" spells out.                 *)

ParseError == "SyntaxError: JSON.parse"
NoTableMsg == "Invalid query or empty response"
OkMsg == "ok"

Members == {"t", "n", "s"}

Min(a, b) == IF a < b THEN a ELSE b
Max(a, b) == IF a > b THEN a ELSE b

\* String.prototype.indexOf and lastIndexOf, 0-based, -1 when absent.
IndexOf(text, c) ==
  LET P == {i \in 1..Len(text) : text[i] = c}
  IN IF P = {} THEN -1 ELSE (CHOOSE i \in P : \A j \in P : i <= j) - 1

LastIndexOf(text, c) ==
  LET P == {i \in 1..Len(text) : text[i] = c}
  IN IF P = {} THEN -1 ELSE (CHOOSE i \in P : \A j \in P : i >= j) - 1

\* String.prototype.slice(a, b): a negative index counts from the end.
Slice(text, a, b) ==
  LET n == Len(text)
      from == IF a < 0 THEN Max(n + a, 0) ELSE Min(a, n)
      to == IF b < 0 THEN Max(n + b, 0) ELSE Min(b, n)
  IN IF from < to THEN SubSeq(text, from + 1, to) ELSE <<>>

NullData == [isNull |-> TRUE]

EmptyTable == [cols |-> <<>>, rows |-> <<>>]

\* JSON.parse of the sliced text: an object when the text is "{", members,
\* "}"; a SyntaxError otherwise.  A repeated key keeps its last value.
JSONparse(text, table) ==
  LET n == Len(text)
      wellFormed == /\ n >= 2 /\ text[1] = "{" /\ text[n] = "}"
                    /\ \A i \in 2..(n - 1) : text[i] \in Members
      T == {i \in 2..(n - 1) : text[i] \in {"t", "n"}}
      last == CHOOSE i \in T : \A j \in T : i >= j
      member == IF T = {} THEN "none" ELSE text[last]
  IN IF ~wellFormed THEN Throw(ParseError)
     ELSE Return([isNull |-> FALSE, tableMember |-> member,
                  table |-> IF member = "t" THEN table ELSE EmptyTable])

\* json.table is truthy exactly when it is the table object.
HasTable(json) == json.tableMember = "t"

HTTPErrorMsg(res) == "HTTP Error " \o ToString(res.status) \o ": " \o res.statusText

\* Response.ok
Ok(res) == res.status \in 200..299

\* The parse guarded by a catch that reports a failed parse on the result.
fetchJSONBodyCatching(b) ==
  LET text == b.text
      parsed == JSONparse(Slice(text, IndexOf(text, "{"), LastIndexOf(text, "}") + 1), b.table)
  IN IF parsed.kind = "throw" THEN Return([data |-> NullData, msg |-> NoTableMsg])
     ELSE IF ~HasTable(parsed.value) THEN Return([data |-> NullData, msg |-> NoTableMsg])
     ELSE Return([data |-> parsed.value, msg |-> OkMsg])

\* fetchJSON after res.text() resolved (lines 15-19).
fetchJSONBody(b) ==
  LET text == b.text
      parsed == JSONparse(Slice(text, IndexOf(text, "{"), LastIndexOf(text, "}") + 1), b.table)
  IN IF parsed.kind = "throw" THEN parsed
     ELSE IF ~HasTable(parsed.value) THEN Return([data |-> NullData, msg |-> NoTableMsg])
     ELSE Return([data |-> parsed.value, msg |-> OkMsg])

\* fetchJSON when the response is not ok (line 22).
fetchJSONFailed(res) == Return([data |-> NullData, msg |-> HTTPErrorMsg(res)])

----------------------------------------------------------------------------
(* get after fetchJSON returned res (lines 29-49).                         *)

NullCol == [isNull |-> TRUE, label |-> Undefined, id |-> Undefined, type |-> Undefined]

NullCell == [isNull |-> TRUE, v |-> Undefined]

ColumnLabel(index) == "str:Column " \o ToString(index + 1)

\* col?.label || `Column ${index + 1}`, col?.id, col?.type; index is 0-based.
\* The earlier build's column: the label as sent, no default.
NormalizeColAsSent(col, index) ==
  [label |-> col.label, columnId |-> col.id, type |-> col.type]

NormalizeCol(col, index) ==
  [label |-> IF Truthy(col.label) THEN col.label ELSE ColumnLabel(index),
   columnId |-> col.id,
   type |-> col.type]

NormalizeCols(tcols) == [i \in 1..Len(tcols) |-> NormalizeCol(tcols[i], i - 1)]

\* row.c[i], cell ? cell.v : null; an index past the end reads undefined.
CellValue(c, i) ==
  IF i > Len(c) THEN Null
  ELSE IF c[i].isNull THEN Null
  ELSE c[i].v

\* The earlier build's rows: one entry per raw cell, nulls always dropped.
NormalizeRowPerCell(row, cols) ==
  SelectSeq([i \in 1..Len(row.c) |-> CellValue(row.c, i)], LAMBDA x : x # Null)

NormalizeRow(row, cols) == [i \in 1..Len(cols) |-> CellValue(row.c, i)]

NormalizeRows(trows, cols) == [r \in 1..Len(trows) |-> NormalizeRow(trows[r], cols)]

NotNull(cell) == cell # Null

\* rows.map((row) => row.filter((cell) => cell)): every falsy value goes.
ClearNullFalsy(rows) == [r \in 1..Len(rows) |-> SelectSeq(rows[r], Truthy)]

\* rows.map((row) => row.filter((cell) => cell !== null))
ClearNull(rows) == [r \in 1..Len(rows) |-> SelectSeq(rows[r], NotNull)]

\* get with the raw escape hatch tested before the failure report.
getContinueRawFirst(o, res) ==
  IF Truthy(o.raw) THEN Return(res)
  ELSE IF res.data.isNull THEN Return([cols |-> <<>>, rows |-> <<>>, msg |-> res.msg])
  ELSE LET cols == NormalizeCols(res.data.table.cols)
           rows == NormalizeRows(res.data.table.rows, cols)
       IN Return([cols |-> cols,
                  rows |-> IF Truthy(o.clearNull) THEN ClearNull(rows) ELSE rows,
                  msg |-> res.msg])

getContinue(o, res) ==
  IF res.data.isNull THEN Return([cols |-> <<>>, rows |-> <<>>, msg |-> res.msg])
  ELSE IF Truthy(o.raw) THEN Return(res)
  ELSE LET cols == NormalizeCols(res.data.table.cols)
           rows == NormalizeRows(res.data.table.rows, cols)
       IN Return([cols |-> cols,
                  rows |-> IF Truthy(o.clearNull) THEN ClearNull(rows) ELSE rows,
                  msg |-> res.msg])

\* The continuation with options.raw never consulted.
AfterFetchJSONNormalizing(operation, o, r) ==
  IF r.kind = "throw" \/ operation = "fetchJSON" THEN r
  ELSE getContinue([o EXCEPT !.raw = Undefined], r.value)

\* What the call returns or throws once fetchJSON has settled with r.
AfterFetchJSON(operation, o, r) ==
  IF r.kind = "throw" \/ operation = "fetchJSON" THEN r ELSE getContinue(o, r.value)

----------------------------------------------------------------------------
(* getExportedData (lines 52-66).                                          *)

UnsupportedFormat == "Unsupported format. Use: csv, tsv, pdf, or xlsx."

OwnFormats == {"str:csv", "str:tsv", "str:pdf", "str:xlsx"}

\* Property names every object literal inherits from Object.prototype.
ObjectPrototypeKeys == {"str:toString", "str:constructor", "str:valueOf", "str:hasOwnProperty"}

ExportPath(t) ==
  CASE t = "str:csv" -> "str:export?format=csv"
    [] t = "str:tsv" -> "str:export?format=tsv"
    [] t = "str:pdf" -> "str:export?format=pdf"
    [] t = "str:xlsx" -> "str:export?format=xlsx"

\* formats[type]: an own entry, an inherited function, or undefined.
Formats(t) ==
  IF t \in OwnFormats THEN ExportPath(t)
  ELSE IF t \in ObjectPrototypeKeys THEN "fn:" \o t
  ELSE Undefined

IsBlobType(t) == t \in {"str:pdf", "str:xlsx"}

----------------------------------------------------------------------------
(* generateTableFromOutput (lines 68-111).  gen holds the locals of the    *)
(* call: its arguments, the elements under construction and the log of the *)
(* callbacks it has invoked.  An element is its list of children; a cell   *)
(* is its tag and its text.                                                *)

InvalidData == "Given data parameter is not valid or available."

\* The data argument: t is the kind of value passed; cols and rows are the
\* arrays when colsIsArray and rowsIsArray say they are arrays.
DataValue(t, colsIsArray, cols, rowsIsArray, rows, msg) ==
  [t |-> t, colsIsArray |-> colsIsArray, cols |-> cols,
   rowsIsArray |-> rowsIsArray, rows |-> rows, msg |-> msg]

NoData == DataValue("undefined", FALSE, <<>>, FALSE, <<>>, Undefined)

\* A value get returned, passed on as data: a raw result has no cols or rows.
DataOf(v) ==
  IF DOMAIN v = {"cols", "rows", "msg"}
    THEN DataValue("object", TRUE, v.cols, TRUE, v.rows, v.msg)
    ELSE DataValue("object", FALSE, <<>>, FALSE, <<>>, v.msg)

NoClassName == [table |-> Undefined, thead |-> Undefined, tbody |-> Undefined]

GenOptions(className, theadItem, tbodyItem) ==
  [className |-> className, theadItem |-> theadItem, tbodyItem |-> tbodyItem]

NoGen ==
  [data |-> NoData, opts |-> GenOptions(NoClassName, Undefined, Undefined),
   fromGet |-> FALSE, built |-> FALSE, className |-> NoClassName,
   headerRow |-> <<>>, thead |-> <<>>, tr |-> <<>>, tbody |-> <<>>,
   ci |-> 0, ri |-> 0, ki |-> 0, calls |-> <<>>]

\* The guard of line 69 with the test of msg left out.
IsValidDataAnyMsg(d) ==
  /\ d.t \notin {"undefined", "null"}
  /\ d.rowsIsArray
  /\ d.colsIsArray

\* The negation of the guard of line 69.
IsValidData(d) ==
  /\ d.t \notin {"undefined", "null"}
  /\ d.rowsIsArray
  /\ d.colsIsArray
  /\ d.msg = "ok"

\* if (options.className?.x) el.className = options.className.x
ClassNameOf(v) == IF Truthy(v) THEN v ELSE "str:"

\* el.textContent = v: null gives the empty string, a string is kept, any
\* other value is converted to a string.
TextContent(v) ==
  CASE v = Null -> "str:"
    [] v = Undefined -> "str:undefined"
    [] v = "num:0" -> "str:0"
    [] v = "bool:false" -> "str:false"
    [] v = "bool:true" -> "str:true"
    [] OTHER -> v

IsFunction(f) == f = "fn"

\* callback(cell): the log entry tells where the cell sits when the callback
\* runs; row is 0 for the header row.
Invoke(calls, f, hook, cell, rowIndex, pos, row) ==
  IF IsFunction(f)
    THEN Append(calls, [hook |-> hook, cell |-> cell, row |-> rowIndex, pos |-> pos,
                        attached |-> pos \in 1..Len(row) /\ row[pos] = cell])
    ELSE calls

\* Lines 73-81: the elements are created and the class names assigned.
GenStart(d, o, fromGet) ==
  [NoGen EXCEPT !.data = d, !.opts = o, !.fromGet = fromGet, !.built = TRUE,
                !.className = [table |-> ClassNameOf(o.className.table),
                               thead |-> ClassNameOf(o.className.thead),
                               tbody |-> ClassNameOf(o.className.tbody)],
                !.ci = 1]

\* The header callback run before the cell is appended to the row.
HeaderCellHookFirst(g) ==
  LET th == [tag |-> "th", text |-> TextContent(g.data.cols[g.ci].label)]
  IN [g EXCEPT !.calls = Invoke(g.calls, g.opts.theadItem, "theadItem", th, 0, g.ci, g.headerRow),
               !.headerRow = Append(g.headerRow, th),
               !.ci = g.ci + 1]

\* Lines 83-89: one iteration of data.cols.forEach.
HeaderCell(g) ==
  LET th == [tag |-> "th", text |-> TextContent(g.data.cols[g.ci].label)]
      row == Append(g.headerRow, th)
  IN [g EXCEPT !.headerRow = row,
               !.calls = Invoke(g.calls, g.opts.theadItem, "theadItem", th, 0, g.ci, row),
               !.ci = g.ci + 1]

\* Lines 96-102: one iteration of row.forEach.
BodyCell(g) ==
  LET td == [tag |-> "td", text |-> TextContent(g.data.rows[g.ri][g.ki])]
      row == Append(g.tr, td)
  IN [g EXCEPT !.tr = row,
               !.calls = Invoke(g.calls, g.opts.tbodyItem, "tbodyItem", td, g.ri, g.ki, row),
               !.ki = g.ki + 1]

\* Lines 107-110: the table that is returned.
TableOf(g) ==
  [tag |-> "table", className |-> g.className.table,
   children |-> <<[tag |-> "thead", className |-> g.className.thead, rows |-> g.thead],
                  [tag |-> "tbody", className |-> g.className.tbody, rows |-> g.tbody]>>]

----------------------------------------------------------------------------
(* Requests and responses.                                                 *)

NetworkError == "TypeError: Failed to fetch"

NoResponse == [status |-> 0, statusText |-> ""]

NoBody == [text |-> <<>>, table |-> EmptyTable]

QueryRequest(canonical, sheet, query) ==
  [base |-> canonical, path |-> "str:gviz/tq", sheet |-> sheet, tq |-> query]

ExportRequest(canonical, path) ==
  [base |-> canonical, path |-> path, sheet |-> Undefined, tq |-> Undefined]

\* get's parameter default: options = {}.
Effective(o) == IF o.t = "undefined" THEN EmptyObject ELSE o

\* fetchJSON up to the fetch (lines 10-12): destructuring null or undefined
\* throws, then parseURL may throw; Pending means the request goes out.
fetchJSONPrologue(u, o) ==
  IF o.t \in {"null", "undefined"} THEN Throw(DestructureError)
  ELSE IF parseURL(u).kind = "throw" THEN parseURL(u)
  ELSE Pending

fetchJSONRequest(u, o) ==
  QueryRequest(parseURL(u).value, OrDefault(o.sheet, "str:Sheet1"), OrDefault(o.query, "str:SELECT *"))

\* get up to the first await (lines 26-28).
getPrologue(u, o) ==
  IF Typeof(Effective(o)) # "object" THEN Throw(InvalidOptions)
  ELSE fetchJSONPrologue(u, Effective(o))

\* getExportedData up to the fetch (lines 53-62).
getExportedDataPrologue(u, t) ==
  IF Falsy(Formats(OrDefault(t, "str:csv"))) THEN Throw(UnsupportedFormat)
  ELSE IF parseURL(u).kind = "throw" THEN parseURL(u)
  ELSE Pending

getExportedDataRequest(u, t) ==
  ExportRequest(parseURL(u).value, Formats(OrDefault(t, "str:csv")))

----------------------------------------------------------------------------
(* The inputs.                                                             *)

UrlChars == {"/", "d", "a"}

Urls == SeqsUpTo(UrlChars, MaxUrlLen)

\* A share link as the README gives it: .../d/<id>/edit
ShareUrl == CanonicalPrefix \o <<"a", "d">> \o <<"/", "e", "d", "i", "t">>

Flags == {Undefined, "bool:false", "bool:true"}

FlagObjects == {OptionsValue("object", Undefined, Undefined, r, c) : r \in Flags, c \in Flags}

QueryObjects ==
  {OptionsValue("object", "str:Sheet2", Undefined, Undefined, Undefined),
   OptionsValue("object", Undefined, "str:SELECT A", Undefined, "bool:true"),
   OptionsValue("object", "str:Sheet2", "str:SELECT A", "bool:true", Undefined)}

NonObjects == {NonObject(t) : t \in {"undefined", "null", "string", "number", "boolean", "array"}}

AllOptions == FlagObjects \cup QueryObjects \cup NonObjects

ExportTypes == {Undefined, "null"} \cup OwnFormats \cup ObjectPrototypeKeys \cup {"str:bogus", "str:"}

Statuses ==
  {[status |-> 200, statusText |-> "OK"],
   [status |-> 404, statusText |-> "Not Found"],
   [status |-> 500, statusText |-> "Internal Server Error"]}

Col(label, id, t) == [isNull |-> FALSE, label |-> label, id |-> id, type |-> t]

Cell(v) == [isNull |-> FALSE, v |-> v]

ColKinds ==
  {NullCol,
   Col("str:Name", "str:A", "str:string"),
   Col("str:", "str:B", "str:number"),
   Col(Undefined, Undefined, Undefined)}

CellKinds == {NullCell, Cell(Null), Cell("num:0"), Cell("str:Adam")}

\* The row lists whose k-th row has lens[k] cells.
RECURSIVE RowLists(_)
RowLists(lens) ==
  IF lens = <<>> THEN {<<>>}
  ELSE {<<[c |-> c1]>> \o rest : c1 \in [1..Head(lens) -> CellKinds], rest \in RowLists(Tail(lens))}

\* The lists of row lengths that fit a payload of n items, a row counting
\* as one item and each of its cells as one more.
RECURSIVE RowLengths(_)
RowLengths(n) ==
  {<<>>} \cup UNION {{<<k>> \o rest : rest \in RowLengths(n - 1 - k)} : k \in 0..(n - 1)}

\* Callers' data and options for generateTableFromOutput.
GenColKinds ==
  {[label |-> "str:Name", columnId |-> "str:A", type |-> "str:string"],
   [label |-> "str:Column 2", columnId |-> Undefined, type |-> Undefined]}

GenCellKinds == {Null, "num:0", "str:Adam"}

GenClassNames == {NoClassName, [table |-> "str:sheet", thead |-> Undefined, tbody |-> "str:body"]}

GenOptionsSet ==
  {GenOptions(c, h, b) : c \in GenClassNames, h \in {"fn", Undefined}, b \in {"fn", "str:tbodyItem"}}

\* Data the guard of line 69 has to turn away, one for each of its tests,
\* and an empty table.
SampleData ==
  {DataValue("undefined", FALSE, <<>>, FALSE, <<>>, Undefined),
   DataValue("null", FALSE, <<>>, FALSE, <<>>, Undefined),
   DataValue("object", FALSE, <<>>, TRUE, <<<<"str:Adam">>>>, "ok"),
   DataValue("object", TRUE, <<CHOOSE c \in GenColKinds : c.label = "str:Name">>, FALSE, <<>>, "ok"),
   DataValue("object", TRUE, <<CHOOSE c \in GenColKinds : c.label = "str:Name">>, TRUE,
             <<<<"str:Adam">>>>, NoTableMsg),
   DataValue("object", TRUE, <<CHOOSE c \in GenColKinds : c.label = "str:Name">>, TRUE,
             <<<<"str:Adam">>>>, Undefined),
   DataValue("object", TRUE, <<>>, TRUE, <<>>, "ok")}

\* The rows of a data argument with the given row lengths.
RECURSIVE DataRows(_)
DataRows(lens) ==
  IF lens = <<>> THEN {<<>>}
  ELSE {<<r>> \o rest : r \in [1..Head(lens) -> GenCellKinds], rest \in DataRows(Tail(lens))}

\* What a body is made of: braces, the three kinds of member, and any other
\* character.
BodyTokens == {"{", "}", "g"} \cup Members

Envelope(middle) == <<"g", "{">> \o middle \o <<"}", "g">>

TableBody(cs, rs) == [text |-> Envelope(<<"s", "t">>), table |-> [cols |-> cs, rows |-> rs]]

SampleTable ==
  [cols |-> <<Col("str:Name", "str:A", "str:string"), Col("str:", "str:B", "str:number")>>,
   rows |-> <<[c |-> <<Cell("str:Adam"), Cell("num:0")>>], [c |-> <<Cell("str:Adam"), NullCell>>]>>]

SampleBodies ==
  {[text |-> tx, table |-> SampleTable] :
     tx \in {Envelope(<<"s", "t">>), Envelope(<<"s">>), Envelope(<<"n">>), <<"g">>, <<>>,
             <<"{", "t", "}">>, <<"g", "{", "g", "}">>}}

----------------------------------------------------------------------------
(* The state machine: one call at a time, suspended at its awaits.         *)

Init ==
  /\ pc = "idle"
  /\ op = "none"
  /\ url = <<>>
  /\ options = NonObject("undefined")
  /\ type = Undefined
  /\ requests = <<>>
  /\ response = NoResponse
  /\ body = NoBody
  /\ result = Pending
  /\ reapplied = FALSE
  /\ gen = NoGen

CanCall == pc = "idle"

\* A call starts: its arguments are bound, and its synchronous prologue
\* either throws or issues the request req and suspends.
Begin(operation, u, o, t, prologue, req) ==
  /\ op' = operation
  /\ url' = u
  /\ options' = o
  /\ type' = t
  /\ response' = NoResponse
  /\ body' = NoBody
  /\ reapplied' = FALSE
  /\ gen' = NoGen
  /\ IF prologue.kind = "throw"
       THEN /\ pc' = "done" /\ result' = prologue /\ requests' = <<>>
       ELSE /\ pc' = "awaitFetch" /\ result' = Pending /\ requests' = <<req>>

CallParseURL(U) ==
  /\ CanCall
  /\ \E u \in U :
       /\ op' = "parseURL"
       /\ url' = u
       /\ options' = NonObject("undefined")
       /\ type' = Undefined
       /\ requests' = <<>>
       /\ response' = NoResponse
       /\ body' = NoBody
       /\ reapplied' = FALSE
       /\ gen' = NoGen
       /\ pc' = "done"
       /\ result' = parseURL(u)

\* parseURL called on the string a previous parseURL returned.
ReapplyParseURL ==
  /\ pc = "done" /\ op = "parseURL" /\ result.kind = "return" /\ ~reapplied
  /\ url' = result.value
  /\ result' = parseURL(result.value)
  /\ reapplied' = TRUE
  /\ UNCHANGED <<pc, op, options, type, requests, response, body, gen>>

CallGet(U, O) ==
  /\ CanCall
  /\ \E u \in U, o \in O :
       Begin("get", u, o, Undefined, getPrologue(u, o), fetchJSONRequest(u, Effective(o)))

CallFetchJSON(U, O) ==
  /\ CanCall
  /\ \E u \in U, o \in O :
       Begin("fetchJSON", u, o, Undefined, fetchJSONPrologue(u, o), fetchJSONRequest(u, o))

CallGetExportedData(U, T) ==
  /\ CanCall
  /\ \E u \in U, t \in T :
       Begin("getExportedData", u, NonObject("undefined"), t,
             getExportedDataPrologue(u, t), getExportedDataRequest(u, t))

\* getExportedData reporting a failed status the way get does.
OnResponseReported(operation, o, res) ==
  IF Ok(res) THEN Pending
  ELSE IF operation = "getExportedData" THEN Return([data |-> NullData, msg |-> HTTPErrorMsg(res)])
  ELSE AfterFetchJSON(operation, Effective(o), fetchJSONFailed(res))

\* What the call does when fetch resolves with res; Pending means it goes
\* on to read the body.
OnResponse(operation, o, res) ==
  IF Ok(res) THEN Pending
  ELSE IF operation = "getExportedData" THEN Throw(HTTPErrorMsg(res))
  ELSE AfterFetchJSON(operation, Effective(o), fetchJSONFailed(res))

\* What the call does when the body has been read.
OnBody(operation, o, t, b) ==
  IF operation = "getExportedData"
    THEN Return([kind |-> IF IsBlobType(OrDefault(t, "str:csv")) THEN "blob" ELSE "text",
                 content |-> b.text])
    ELSE AfterFetchJSON(operation, Effective(o), fetchJSONBody(b))

\* fetch wrapped in a retry: a failed status sends the request once more.
FetchResolvesRetrying(S) ==
  /\ pc = "awaitFetch"
  /\ \E res \in S :
       /\ response' = res
       /\ IF ~Ok(res) /\ Len(requests) < 2
            THEN /\ requests' = Append(requests, requests[1])
                 /\ UNCHANGED <<pc, result>>
            ELSE /\ requests' = requests
                 /\ result' = OnResponse(op, options, res)
                 /\ pc' = IF Ok(res) THEN "awaitBody" ELSE "done"
  /\ UNCHANGED <<op, url, options, type, body, reapplied, gen>>

FetchResolves(S) ==
  /\ pc = "awaitFetch"
  /\ \E res \in S :
       /\ response' = res
       /\ result' = OnResponse(op, options, res)
       /\ pc' = IF Ok(res) THEN "awaitBody" ELSE "done"
  /\ UNCHANGED <<op, url, options, type, requests, body, reapplied, gen>>

\* The network fails: fetch rejects, and the call rethrows.
FetchRejects ==
  /\ pc = "awaitFetch"
  /\ result' = Throw(NetworkError)
  /\ pc' = "done"
  /\ UNCHANGED <<op, url, options, type, requests, response, body, reapplied, gen>>

\* The body has been read as b, and the call runs to its end.
ReadBody(b) ==
  /\ body' = b
  /\ result' = OnBody(op, options, type, b)
  /\ pc' = "done"
  /\ UNCHANGED <<op, url, options, type, requests, response, reapplied, gen>>

BodyResolves(B) ==
  /\ pc = "awaitBody"
  /\ \E b \in B : ReadBody(b)

\* The body is the envelope of any table whose columns, rows and cells
\* together number at most MaxPayload.
BodyResolvesWithTable ==
  /\ pc = "awaitBody"
  /\ \E nc \in 0..MaxPayload : \E lens \in RowLengths(MaxPayload - nc) :
       \E cs \in [1..nc -> ColKinds], rs \in RowLists(lens) : ReadBody(TableBody(cs, rs))

\* The body is any text of at most MaxBodyLen tokens; a "t" member stands
\* for the sample table.
BodyResolvesWithText ==
  /\ pc = "awaitBody"
  /\ \E k \in 0..MaxBodyLen : \E tx \in [1..k -> BodyTokens] :
       ReadBody([text |-> tx, table |-> SampleTable])

\* The caller has taken the outcome; nothing of the call is kept.
Settle ==
  /\ pc = "done"
  /\ pc' = "idle"
  /\ op' = "none"
  /\ url' = <<>>
  /\ options' = NonObject("undefined")
  /\ type' = Undefined
  /\ requests' = <<>>
  /\ response' = NoResponse
  /\ body' = NoBody
  /\ result' = Pending
  /\ reapplied' = FALSE
  /\ gen' = NoGen

\* Lines 69-81: the guard, then the elements; nothing is built when it throws.
Generate(d, o, fromGet) ==
  /\ op' = "generateTableFromOutput"
  /\ reapplied' = FALSE
  /\ IF IsValidData(d)
       THEN /\ gen' = GenStart(d, o, fromGet)
            /\ result' = Pending
            /\ pc' = "genHeader"
       ELSE /\ gen' = [NoGen EXCEPT !.data = d, !.opts = o, !.fromGet = fromGet]
            /\ result' = Throw(InvalidData)
            /\ pc' = "done"

ResetCall ==
  /\ url' = <<>>
  /\ options' = NonObject("undefined")
  /\ type' = Undefined
  /\ requests' = <<>>
  /\ response' = NoResponse
  /\ body' = NoBody

CallGenerate(D, O) ==
  /\ CanCall
  /\ \E d \in D, o \in O : Generate(d, o, FALSE)
  /\ ResetCall

\* Any table whose columns, rows and cells together number at most MaxPayload;
\* a row need not be as long as cols.
CallGenerateWithTable(O) ==
  /\ CanCall
  /\ \E nc \in 0..MaxPayload : \E lens \in RowLengths(MaxPayload - nc) :
       \E cs \in [1..nc -> GenColKinds], rs \in DataRows(lens), o \in O :
         Generate(DataValue("object", TRUE, cs, TRUE, rs, "ok"), o, FALSE)
  /\ ResetCall

\* generateTableFromOutput called with what get has just returned.
GenerateFromResult(O) ==
  /\ pc = "done" /\ op = "get" /\ result.kind = "return"
  /\ \E o \in O : Generate(DataOf(result.value), o, TRUE)
  /\ UNCHANGED <<url, options, type, requests, response, body>>

GenStep(g, next, r) ==
  /\ gen' = g
  /\ pc' = next
  /\ result' = r
  /\ UNCHANGED <<op, url, options, type, requests, response, body, reapplied>>

\* Lines 82-90: the next column gets its header cell.
GenHeaderCell ==
  /\ pc = "genHeader" /\ gen.ci <= Len(gen.data.cols)
  /\ GenStep(HeaderCell(gen), "genHeader", result)

\* Line 91, after the last column.
GenHeaderEnd ==
  /\ pc = "genHeader" /\ gen.ci > Len(gen.data.cols)
  /\ GenStep([gen EXCEPT !.thead = Append(gen.thead, gen.headerRow), !.ri = 1], "genRows", result)

\* Lines 93-94: the next row gets its tr.
GenRowStart ==
  /\ pc = "genRows" /\ gen.ri <= Len(gen.data.rows)
  /\ GenStep([gen EXCEPT !.tr = <<>>, !.ki = 1], "genCells", result)

\* Lines 95-103: the next value of the row gets its cell.
GenBodyCell ==
  /\ pc = "genCells" /\ gen.ki <= Len(gen.data.rows[gen.ri])
  /\ GenStep(BodyCell(gen), "genCells", result)

\* Line 104, after the last value of the row.
GenRowEnd ==
  /\ pc = "genCells" /\ gen.ki > Len(gen.data.rows[gen.ri])
  /\ GenStep([gen EXCEPT !.tbody = Append(gen.tbody, gen.tr), !.tr = <<>>, !.ki = 0,
                         !.ri = gen.ri + 1], "genRows", result)

\* Lines 107-110, after the last row.
GenFinish ==
  /\ pc = "genRows" /\ gen.ri > Len(gen.data.rows)
  /\ GenStep(gen, "done", Return(TableOf(gen)))

Next ==
  \/ CallParseURL(Urls)
  \/ ReapplyParseURL
  \/ CallGet(Urls, AllOptions)
  \/ CallFetchJSON(Urls, AllOptions)
  \/ CallGetExportedData(Urls, ExportTypes)
  \/ FetchResolves(Statuses)
  \/ FetchRejects
  \/ BodyResolves(SampleBodies)
  \/ Settle

Spec == Init /\ [][Next]_vars

\* get on one share link, over every payload within the bounds.
NextNormalize ==
  \/ CallGet({ShareUrl}, FlagObjects)
  \/ FetchResolves(Statuses)
  \/ FetchRejects
  \/ BodyResolvesWithTable
  \/ Settle

SpecNormalize == Init /\ [][NextNormalize]_vars

\* get and fetchJSON on one share link, over every body text within the bound.
NextParse ==
  \/ CallGet({ShareUrl}, FlagObjects)
  \/ CallFetchJSON({ShareUrl}, FlagObjects)
  \/ FetchResolves(Statuses)
  \/ BodyResolvesWithText
  \/ Settle

SpecParse == Init /\ [][NextParse]_vars

\* generateTableFromOutput, on data of the caller's and on what get returns.
NextGenerate ==
  \/ CallGenerate(SampleData, GenOptionsSet)
  \/ CallGenerateWithTable(GenOptionsSet)
  \/ CallGet({ShareUrl}, FlagObjects)
  \/ FetchResolves(Statuses)
  \/ FetchRejects
  \/ BodyResolves(SampleBodies)
  \/ GenerateFromResult(GenOptionsSet)
  \/ GenHeaderCell
  \/ GenHeaderEnd
  \/ GenRowStart
  \/ GenBodyCell
  \/ GenRowEnd
  \/ GenFinish
  \/ Settle

SpecGenerate == Init /\ [][NextGenerate]_vars

----------------------------------------------------------------------------
(* Properties.                                                             *)

Done(operation) == pc = "done" /\ op = operation

\* The request went out and came back with a non-success HTTP status.
FailedStatus == response # NoResponse /\ response.status \notin 200..299

\* The body was read and its JSON object carries a table.
GotTable ==
  /\ pc = "done" /\ response # NoResponse /\ response.status \in 200..299
  /\ fetchJSONBody(body).kind = "return"
  /\ ~fetchJSONBody(body).value.data.isNull

\* The body was read and parsed, and its JSON object carries no table.
GotNoTable ==
  /\ pc = "done" /\ response # NoResponse /\ response.status \in 200..299
  /\ fetchJSONBody(body).kind = "return"
  /\ fetchJSONBody(body).value.data.isNull

IsNormalized(v) == DOMAIN v = {"cols", "rows", "msg"}

\* The entry of a normalized row at index i: the cell's v, or null when the
\* raw row has no cell there or the cell is null.
ExpectedEntry(c, i) == IF i \in DOMAIN c /\ ~c[i].isNull THEN c[i].v ELSE "null"

\* C1: on a successful fetch with raw and clearNull unset (or false), get
\* returns one row per raw row, each with exactly cols.length entries, entry
\* i being the v of the raw cell at index i, or null when that cell is absent
\* or null, whatever the length of the raw row's cell array.
C1_RowsMatchCols ==
  (Done("get") /\ GotTable /\ Falsy(options.raw) /\ Falsy(options.clearNull)) =>
    /\ result.kind = "return"
    /\ Len(result.value.rows) = Len(body.table.rows)
    /\ Len(result.value.cols) = Len(body.table.cols)
    /\ \A r \in 1..Len(body.table.rows) :
         /\ Len(result.value.rows[r]) = Len(result.value.cols)
         /\ \A i \in 1..Len(body.table.cols) :
              result.value.rows[r][i] = ExpectedEntry(body.table.rows[r].c, i)

\* A table with one raw row shorter than cols and one longer, normalized.
C1_Witness ==
  /\ Done("get") /\ GotTable /\ options.raw = "undefined" /\ options.clearNull = "undefined"
  /\ result.kind = "return"
  /\ \E r1, r2 \in 1..Len(body.table.rows) :
       /\ Len(body.table.rows[r1].c) < Len(body.table.cols)
       /\ Len(body.table.rows[r2].c) > Len(body.table.cols)
       /\ \E i \in 1..Len(body.table.cols) : result.value.rows[r2][i] # "null"

ExpectedHTTPMsg(res) ==
  IF res.status = 404 THEN "HTTP Error 404: Not Found"
  ELSE IF res.status = 500 THEN "HTTP Error 500: Internal Server Error"
  ELSE "?"

FailureResult(m) == [kind |-> "return", error |-> "", value |-> [cols |-> <<>>, rows |-> <<>>, msg |-> m]]

\* C2: whenever the fetch reports a failure (a non-success status, or a
\* parsed body without a table), get throws nothing and returns exactly
\* {cols: [], rows: [], msg: the fetch's msg}, with raw set or not; so every
\* non-raw value get returns has msg "ok" or empty cols and rows.
C2_FailureIsReported ==
  /\ (Done("get") /\ FailedStatus) => result = FailureResult(ExpectedHTTPMsg(response))
  /\ (Done("get") /\ GotNoTable) => result = FailureResult("Invalid query or empty response")
  /\ (Done("get") /\ result.kind = "return" /\ IsNormalized(result.value)) =>
       \/ result.value.msg = "ok"
       \/ result.value.cols = <<>> /\ result.value.rows = <<>>

\* get with raw set, answered 404.
C2_Witness ==
  /\ Done("get") /\ options.raw = "bool:true" /\ response.status = 404
  /\ result = FailureResult("HTTP Error 404: Not Found")

\* C3: on a non-success HTTP status getExportedData throws and returns no
\* value, while get returns a value carrying the diagnostic in msg and
\* throws nothing.
C3_FailureChannelsDiffer ==
  /\ (Done("getExportedData") /\ FailedStatus) =>
       /\ result.kind = "throw"
       /\ result.error = ExpectedHTTPMsg(response)
       /\ result.value = "undefined"
  /\ (Done("get") /\ FailedStatus) =>
       /\ result.kind = "return"
       /\ result.error = ""
       /\ result.value.msg = ExpectedHTTPMsg(response)

\* getExportedData of a supported format, answered 500.
C3_Witness ==
  /\ Done("getExportedData") /\ type = "str:xlsx" /\ response.status = 500
  /\ result.kind = "throw"

\* C4 (as claimed): for every type other than csv, tsv, pdf and xlsx,
\* getExportedData fails with UnsupportedFormat and issues no request.
C4_OtherTypesRejected ==
  (op = "getExportedData" /\ type \notin {"undefined", "str:csv", "str:tsv", "str:pdf", "str:xlsx"}) =>
    /\ requests = <<>>
    /\ pc = "done"
    /\ result = [kind |-> "throw", error |-> UnsupportedFormat, value |-> "undefined"]

\* C5 (as claimed): for options a string, number, boolean or null, get fails
\* at once with InvalidOptions, with no other error, no result and no request.
C5_NonObjectOptionsRejected ==
  (op = "get" /\ options.t \in {"string", "number", "boolean", "null"}) =>
    /\ requests = <<>>
    /\ pc = "done"
    /\ result = [kind |-> "throw", error |-> InvalidOptions, value |-> "undefined"]

RECURSIVE WithoutNulls(_)
WithoutNulls(row) ==
  IF row = <<>> THEN <<>>
  ELSE IF Head(row) = "null" THEN WithoutNulls(Tail(row))
  ELSE <<Head(row)>> \o WithoutNulls(Tail(row))

ExpectedRow(c, n) == [i \in 1..n |-> ExpectedEntry(c, i)]

\* C6: with clearNull set on a successful fetch, each returned row is the
\* row returned without clearNull with exactly its nulls removed: it holds
\* no null, keeps every other value (0 included) in order, is strictly
\* shorter than cols.length when the row had a null, and cols is unchanged.
C6_ClearNullRemovesOnlyNulls ==
  (Done("get") /\ GotTable /\ Falsy(options.raw) /\ Truthy(options.clearNull)) =>
    /\ result.kind = "return"
    /\ Len(result.value.rows) = Len(body.table.rows)
    /\ result.value.cols =
         getContinue([options EXCEPT !.clearNull = "undefined"], fetchJSONBody(body).value).value.cols
    /\ \A r \in 1..Len(body.table.rows) :
         LET full == ExpectedRow(body.table.rows[r].c, Len(body.table.cols))
             out == result.value.rows[r]
         IN /\ out = WithoutNulls(full)
            /\ \A i \in 1..Len(out) : out[i] # "null"
            /\ Len(out) = Cardinality({i \in 1..Len(full) : full[i] # "null"})
            /\ (\E i \in 1..Len(full) : full[i] = "null") => Len(out) < Len(result.value.cols)

\* A row holding a null and a 0: the 0 is kept and the row is shorter.
C6_Witness ==
  /\ Done("get") /\ GotTable /\ options.raw = "undefined" /\ options.clearNull = "bool:true"
  /\ result.kind = "return"
  /\ \E r \in 1..Len(result.value.rows) :
       /\ Len(result.value.rows[r]) = 1
       /\ result.value.rows[r][1] = "num:0"
       /\ Len(result.value.cols) = 2
       /\ body.table.rows[r].c[1].isNull

\* C7: with raw set and the fetch successful, get returns the fetch's result
\* {data: parsed payload, msg: "ok"} unmodified: no cols or rows are built,
\* and nothing is cleared even when clearNull is set too.
C7_RawIsUnmodified ==
  (Done("get") /\ GotTable /\ Truthy(options.raw)) =>
    /\ result.kind = "return"
    /\ DOMAIN result.value = {"data", "msg"}
    /\ result.value.msg = "ok"
    /\ ~result.value.data.isNull
    /\ result.value.data.table = body.table
    /\ result.value = fetchJSONBody(body).value

\* raw and clearNull both set, on a table with a null cell and a null column.
C7_Witness ==
  /\ Done("get") /\ GotTable /\ options.raw = "bool:true" /\ options.clearNull = "bool:true"
  /\ result.kind = "return"
  /\ \E r \in 1..Len(body.table.rows) : \E i \in 1..Len(body.table.rows[r].c) :
       body.table.rows[r].c[i].isNull
  /\ \E i \in 1..Len(body.table.cols) : body.table.cols[i].isNull
  /\ result.value.data.table = body.table

ExpectedLabels ==
  <<"str:Column 1", "str:Column 2", "str:Column 3", "str:Column 4",
    "str:Column 5", "str:Column 6", "str:Column 7", "str:Column 8">>

\* C8: on a successful non-raw get, cols has the length and order of
\* table.cols; entry i carries the raw label when there is one and
\* "Column <i+1>" (1-based position) when it is missing or empty, the raw id
\* as columnId and the raw type as type; no label is empty.
C8_ColsKeepOrderAndLabels ==
  (Done("get") /\ GotTable /\ Falsy(options.raw)) =>
    /\ result.kind = "return"
    /\ Len(result.value.cols) = Len(body.table.cols)
    /\ \A i \in 1..Len(body.table.cols) :
         LET raw == body.table.cols[i]
             out == result.value.cols[i]
         IN /\ DOMAIN out = {"label", "columnId", "type"}
            /\ out.label = IF raw.label \in {"undefined", "null", "str:"}
                             THEN ExpectedLabels[i] ELSE raw.label
            /\ out.columnId = raw.id
            /\ out.type = raw.type
            /\ out.label \notin {"undefined", "null", "str:"}

\* A labelled column followed by one the service sent unlabelled.
C8_Witness ==
  /\ Done("get") /\ GotTable /\ Falsy(options.raw)
  /\ result.kind = "return"
  /\ Len(body.table.cols) = 2
  /\ body.table.cols[1].label = "str:Name"
  /\ body.table.cols[2].label = "str:"
  /\ result.value.cols[1].label = "str:Name"
  /\ result.value.cols[2] = [label |-> "str:Column 2", columnId |-> "str:B", type |-> "str:number"]

\* s[i..i+2] is "/d/" and s[i+3..j] is a non-empty run without "/" that
\* ends at the next "/" or at the end of the string.
IdAt(s, i, j) ==
  /\ 1 <= i /\ i + 3 <= j /\ j <= Len(s)
  /\ s[i] = "/" /\ s[i + 1] = "d" /\ s[i + 2] = "/"
  /\ \A m \in (i + 3)..j : s[m] # "/"
  /\ (j = Len(s) \/ s[j + 1] = "/")

HasId(s) == \E i, j \in 1..Len(s) : IdAt(s, i, j)

\* The same with the closing "/" required: a "/d/<id>/" segment.
SegmentAt(s, i, j) == IdAt(s, i, j) /\ j < Len(s)

HasSegment(s) == \E i, j \in 1..Len(s) : SegmentAt(s, i, j)

CanonicalText ==
  <<"h","t","t","p","s",":","/","/","d","o","c","s",".","g","o","o","g","l","e",
    ".","c","o","m","/","s","p","r","e","a","d","s","h","e","e","t","s","/","d","/">>

Thrown(e) == [kind |-> "throw", error |-> e, value |-> "undefined"]

Returned(v) == [kind |-> "return", error |-> "", value |-> v]

\* C9 (as claimed): a string with no "/d/<id>/" segment, closing "/"
\* included, makes parseURL fail with InvalidURL, and get and getExportedData
\* raise that error without a request; a string with one gives the canonical
\* URL of the id between the first such "/d/" and the next "/".
C9_SegmentNeedsClosingSlash ==
  /\ (Done("parseURL") /\ ~HasSegment(url)) => result = Thrown("Invalid Google Sheets URL")
  /\ (Done("parseURL") /\ HasSegment(url)) =>
       \E i, j \in 1..Len(url) :
         /\ SegmentAt(url, i, j)
         /\ \A i2 \in 1..(i - 1), j2 \in 1..Len(url) : ~SegmentAt(url, i2, j2)
         /\ result = Returned(CanonicalText \o SubSeq(url, i + 3, j))
  /\ (op \in {"get", "getExportedData"} /\ ~HasSegment(url)) =>
       /\ pc = "done" /\ result.kind = "throw" /\ requests = <<>>

\* C9 (amended): the closing "/" is not needed.  A string with no "/d/"
\* followed by a character other than "/" makes parseURL fail with
\* InvalidURL; any other string gives the canonical URL of the id that runs
\* from the first such "/d/" to the next "/" or to the end of the string.
\* get and getExportedData on a string of the first kind throw without
\* issuing a request, and throw InvalidURL when their other argument is
\* acceptable (options an object or omitted, type a supported format or
\* omitted).
C9_IdRunsToSlashOrEnd ==
  /\ (Done("parseURL") /\ ~HasId(url)) => result = Thrown("Invalid Google Sheets URL")
  /\ (Done("parseURL") /\ HasId(url)) =>
       \E i, j \in 1..Len(url) :
         /\ IdAt(url, i, j)
         /\ \A i2 \in 1..(i - 1), j2 \in 1..Len(url) : ~IdAt(url, i2, j2)
         /\ result = Returned(CanonicalText \o SubSeq(url, i + 3, j))
  /\ (op \in {"get", "getExportedData"} /\ ~HasId(url)) =>
       /\ pc = "done" /\ result.kind = "throw" /\ requests = <<>>
       /\ (op = "get" /\ options.t \in {"object", "array", "undefined"}) =>
            result = Thrown("Invalid Google Sheets URL")
       /\ (op = "getExportedData" /\ type \in {"undefined", "str:csv", "str:tsv", "str:pdf", "str:xlsx"}) =>
            result = Thrown("Invalid Google Sheets URL")

\* parseURL accepted a string whose id ends the string: no closing "/".
C9_Witness ==
  /\ Done("parseURL") /\ ~reapplied
  /\ HasId(url) /\ ~HasSegment(url)
  /\ Len(url) = 5 /\ url[1] = "a"
  /\ result = Returned(CanonicalText \o <<"a">>)

\* C10: parseURL is idempotent: applied to a string it returned, it succeeds
\* and returns that same string.
C10_ParseURLIdempotent ==
  (op = "parseURL" /\ reapplied) => result = Returned(url)

\* parseURL re-applied to the canonical URL of a two-character id.
C10_Witness ==
  /\ op = "parseURL" /\ reapplied
  /\ result.kind = "return"
  /\ Len(result.value) = Len(CanonicalText) + 2

NetworkCalls == {"get", "fetchJSON", "getExportedData"}

\* What a step of a network call may do: the request list changes only when
\* the call is over and settled; a failed status has already ended the call;
\* an outcome, once there, stays; and the wait for the response ends only
\* with a response or with the fetch rejecting.
OneRequestStep ==
  op \in NetworkCalls =>
    /\ (requests' # requests => pc' = "idle")
    /\ ((response # NoResponse /\ response.status \notin 200..299) => pc = "done")
    /\ ((pc = "done" /\ pc' # "idle") => result' = result)
    /\ ((pc = "awaitFetch" /\ pc' # "awaitFetch") =>
          \/ response' # [status |-> 0, statusText |-> ""]
          \/ result' = [kind |-> "throw", error |-> NetworkError, value |-> "undefined"])

\* C11: a call of get, fetchJSON or getExportedData issues at most one
\* request, whatever the remote answers.  The request goes out when the call
\* starts and never again; a failed status ends the call at once with one
\* outcome, which then stays; and a call waiting for its response leaves
\* that wait only when the response arrives or the fetch rejects: it has no
\* timeout and no retry of its own.
C11_AtMostOneRequest ==
  /\ [](op \in NetworkCalls => Len(requests) <= 1)
  /\ [][OneRequestStep]_vars

\* getExportedData answered 500: one request was sent, and the call is over.
C11_Witness ==
  /\ Done("getExportedData") /\ response.status = 500
  /\ Len(requests) = 1
  /\ result.kind = "throw"

Generating == op = "generateTableFromOutput"

Rejected == pc = "done" /\ result.kind = "throw" /\ result.error = InvalidData

\* Nothing has been created, attached or called.
NothingBuilt ==
  /\ ~gen.built
  /\ gen.headerRow = <<>> /\ gen.thead = <<>> /\ gen.tr = <<>> /\ gen.tbody = <<>>
  /\ gen.calls = <<>>

\* What the spec lists: data missing, cols or rows not a sequence, msg not "ok".
SpecInvalid(d) ==
  \/ d.t \in {"undefined", "null"}
  \/ ~d.colsIsArray
  \/ ~d.rowsIsArray
  \/ d.msg # "ok"

\* The get whose result was passed on: what did it return?
GetFailure ==
  \/ FailedStatus
  \/ response.status \in 200..299 /\ fetchJSONBody(body).value.data.isNull

GetSuccess == response.status \in 200..299 /\ ~fetchJSONBody(body).value.data.isNull

\* C12: generateTableFromOutput throws InvalidData exactly when data is
\* missing, cols or rows is not an array, or msg is not "ok"; it throws before
\* anything is built or any callback is called; so a failure result of get and
\* a raw result of get are rejected, and a successful normalized result of get
\* is accepted.
C12_InvalidDataRejected ==
  Generating =>
    /\ SpecInvalid(gen.data) <=> Rejected
    /\ result.kind = "throw" => (Rejected /\ NothingBuilt)
    /\ gen.fromGet =>
         /\ GetFailure => Rejected
         /\ (GetSuccess /\ Truthy(options.raw)) => Rejected
         /\ (GetSuccess /\ ~Truthy(options.raw)) => (~Rejected /\ gen.built)

\* get answered 404 and returned its failure result, which was turned away
\* with callbacks given.
C12_Witness ==
  /\ Generating /\ gen.fromGet /\ FailedStatus
  /\ gen.data.colsIsArray /\ gen.data.rowsIsArray /\ gen.data.msg # "ok"
  /\ IsFunction(gen.opts.theadItem)
  /\ Rejected /\ NothingBuilt

\* The text a cell shows for a value: nothing for null, the string itself,
\* the decimal form of a number.
ExpectedText(v) ==
  IF v = "null" THEN "str:" ELSE IF v = "num:0" THEN "str:0" ELSE v

ExpectedHeaderRow(d) == [i \in 1..Len(d.cols) |-> [tag |-> "th", text |-> d.cols[i].label]]

ExpectedBodyRow(row) == [i \in 1..Len(row) |-> [tag |-> "td", text |-> ExpectedText(row[i])]]

ExpectedHeaderCalls(d) ==
  [i \in 1..Len(d.cols) |->
     [hook |-> "theadItem", cell |-> ExpectedHeaderRow(d)[i], row |-> 0, pos |-> i, attached |-> TRUE]]

\* The tbodyItem calls of rows r, r+1, ...: row by row, each row left to right.
RECURSIVE ExpectedBodyCalls(_, _)
ExpectedBodyCalls(d, r) ==
  IF r > Len(d.rows) THEN <<>>
  ELSE [i \in 1..Len(d.rows[r]) |->
          [hook |-> "tbodyItem", cell |-> ExpectedBodyRow(d.rows[r])[i], row |-> r, pos |-> i,
           attached |-> TRUE]]
       \o ExpectedBodyCalls(d, r + 1)

ExpectedCalls(d, o) ==
  (IF o.theadItem = "fn" THEN ExpectedHeaderCalls(d) ELSE <<>>)
  \o (IF o.tbodyItem = "fn" THEN ExpectedBodyCalls(d, 1) ELSE <<>>)

IsPrefix(a, b) == Len(a) <= Len(b) /\ \A k \in 1..Len(a) : a[k] = b[k]

RECURSIVE TotalValues(_)
TotalValues(rows) == IF rows = <<>> THEN 0 ELSE Len(Head(rows)) + TotalValues(Tail(rows))

CountCalls(hook) == Cardinality({k \in 1..Len(gen.calls) : gen.calls[k].hook = hook})

\* C13: for valid data the table has one header row with one th per entry of
\* cols, in order, showing the label, and one tr per entry of rows with one td
\* per value, in order.  At every moment of the construction the callbacks
\* called so far are the first ones of: theadItem for each header cell in
\* column order, then tbodyItem for each body cell row by row; each was handed
\* a cell already attached to its row; at the end theadItem has run |cols|
\* times and tbodyItem once per row value.
C13_CellsAndHooksInOrder ==
  (Generating /\ gen.built) =>
    /\ IsPrefix(gen.calls, ExpectedCalls(gen.data, gen.opts))
    /\ \A k \in 1..Len(gen.calls) : gen.calls[k].attached
    /\ pc = "done" =>
         /\ result.kind = "return"
         /\ result.value.children[1].tag = "thead"
         /\ result.value.children[1].rows = <<ExpectedHeaderRow(gen.data)>>
         /\ result.value.children[2].tag = "tbody"
         /\ result.value.children[2].rows =
              [r \in 1..Len(gen.data.rows) |-> ExpectedBodyRow(gen.data.rows[r])]
         /\ gen.calls = ExpectedCalls(gen.data, gen.opts)
         /\ IsFunction(gen.opts.theadItem) => CountCalls("theadItem") = Len(gen.data.cols)
         /\ IsFunction(gen.opts.tbodyItem) => CountCalls("tbodyItem") = TotalValues(gen.data.rows)

\* The table of a get of two columns and two rows, both callbacks given: two
\* theadItem calls, then four tbodyItem calls.
C13_Witness ==
  /\ Generating /\ pc = "done" /\ result.kind = "return"
  /\ Len(gen.data.cols) = 2 /\ Len(gen.data.rows) = 2
  /\ IsFunction(gen.opts.theadItem) /\ IsFunction(gen.opts.tbodyItem)
  /\ Len(gen.calls) = 6
  /\ gen.calls[2].hook = "theadItem" /\ gen.calls[3].hook = "tbodyItem"
  /\ gen.calls[5].row = 2 /\ gen.calls[5].pos = 1

\* i and j are the places of the first "{" and of the last "}" of the text.
Braces(text, i, j) ==
  /\ text[i] = "{" /\ \A k \in 1..(i - 1) : text[k] # "{"
  /\ text[j] = "}" /\ \A k \in (j + 1)..Len(text) : text[k] # "}"

\* The body text from its first "{" to its last "}" is an object: the two
\* braces exist in this order and only members lie between them.
Parseable(text) ==
  \E i, j \in 1..Len(text) :
    /\ i < j
    /\ Braces(text, i, j)
    /\ \A k \in (i + 1)..(j - 1) : text[k] \in {"t", "n", "s"}

\* The object's table member, as its last "table" key gives it, is an object.
CarriesTable(text) ==
  \E i, j \in 1..Len(text) :
    /\ Braces(text, i, j)
    /\ \E k \in (i + 1)..(j - 1) :
         /\ text[k] = "t"
         /\ \A m \in (k + 1)..(j - 1) : text[m] # "t" /\ text[m] # "n"

BodyRead == pc = "done" /\ op \in {"get", "fetchJSON"} /\ Ok(response)

ReportsNoTable ==
  /\ result.kind = "return"
  /\ result.value.msg = NoTableMsg

\* C14: when the response is successful and the body text from its first "{"
\* to its last "}" is not a parseable object (a body without braces included),
\* get and fetchJSON throw the parse error and return nothing; "Invalid query
\* or empty response" is reported only when the parse succeeded and the object
\* has no table.
C14_ParseErrorIsThrown ==
  /\ BodyRead =>
       /\ ~Parseable(body.text) <=> (result.kind = "throw")
       /\ result.kind = "throw" => result.error = ParseError
       /\ ReportsNoTable <=> (Parseable(body.text) /\ ~CarriesTable(body.text))
  /\ (pc = "done" /\ op \in {"get", "fetchJSON"} /\ ReportsNoTable) => Ok(response)

\* get answered 200 with a body that has no brace at all.
C14_Witness ==
  /\ BodyRead /\ op = "get"
  /\ Len(body.text) > 0
  /\ \A k \in 1..Len(body.text) : body.text[k] \notin {"{", "}"}
  /\ result.kind = "throw" /\ result.error = ParseError
====
